---- MODULE Spec2Model ----
(***************************************************************************)
(* Model of the transaction processor: the per-transaction state machine   *)
(* (transaction.rs), the per-client account (account.rs), the account      *)
(* registry and the sharded task layer (account_manager.rs) and the driver *)
(* sequence of main.rs.                                                    *)
(*                                                                         *)
(* Spec        one Account driven by direct Account::process calls, as the *)
(*             unit tests of account.rs drive it.                          *)
(* SpecSharded the load balancer, its tasks and the driver of main.rs.     *)
(*                                                                         *)
(* TxAmount is an isize (64 bit); with the bounds below no sum leaves      *)
(* -(MaxTx * MaxAmount) .. MaxTx * MaxAmount, so no overflow is reachable  *)
(* and amounts are modelled as mathematical integers.                      *)
(*                                                                         *)
(* The driver never sends to a task after Stop and keeps the receiver of   *)
(* the dump channel until every Sender is dropped, so the unwrap() of a    *)
(* failed send is not reachable and is not modelled.                       *)
(***************************************************************************)
EXTENDS Integers, Sequences, FiniteSets, TLC

\* ---------------------------------------------------------------- bounds
\* Transaction ids of the single-account specification: 1..MaxTx.
MaxTx == 3
\* Amounts offered to Deposit and Withdrawal: -1..MaxAmount (TxAmount::new
\* takes any isize; the parser of processor.rs only yields amounts >= 0).
MaxAmount == 1

\* Client ids of the sharded specification: 0..MaxClient.
MaxClient == 1
\* Lines the driver reads before the end of its input.
MaxEvents == 2
\* Shard counts handed to AccountManagerLoadbalancer::spawn: 0..MaxCount.
MaxCount == 2
\* Capacity of a task's channel, channel(128) in the code, scaled down.
ChannelCapacity == 1
\* Capacity of the dump channel, channel(128) in main.rs, scaled down.
SinkCapacity == 1
\* The decimal digits the strings of an amount are made of: 0..MaxDigit.
MaxDigit == 1
\* The longest integral part of an amount.
MaxIntegralLen == 1

TxIDs == 1..MaxTx
Clients == 0..MaxClient
Amounts == (0 - 1)..MaxAmount

\* ------------------------------------------------------------ main.rs
\* LedgerAction: Deposit(amount), Withdrawal(amount), Dispute, Resolve, Chargeback.
Deposit(amount) == [kind |-> "Deposit", amount |-> amount]
Withdrawal(amount) == [kind |-> "Withdrawal", amount |-> amount]
Dispute == [kind |-> "Dispute"]
Resolve == [kind |-> "Resolve"]
Chargeback == [kind |-> "Chargeback"]

LedgerAction(amounts) ==
    {Deposit(a) : a \in amounts} \cup {Withdrawal(a) : a \in amounts}
        \cup {Dispute, Resolve, Chargeback}

LedgerItem(client_id, tx_id, action) ==
    [client_id |-> client_id, tx_id |-> tx_id, action |-> action]

\* -------------------------------------------------------- tx_amount.rs
zero == 0

\* const PRECISION: u32 = 4
PRECISION == 4

\* const PRECISION_FACTOR: isize = 10isize.pow(PRECISION)
PRECISION_FACTOR == 10 ^ PRECISION

\* A &str is a sequence of characters.
DigitChars == <<"0", "1", "2", "3", "4", "5", "6", "7", "8", "9">>

\* char::to_digit(10) of a decimal digit.
to_digit(ch) == (CHOOSE i \in 1..10 : DigitChars[i] = ch) - 1

\* isize::from_str_radix(s, 10) of a non-empty string of decimal digits.
RECURSIVE from_str_radix(_)
from_str_radix(s) ==
    IF Len(s) = 1
    THEN to_digit(s[1])
    ELSE 10 * from_str_radix(SubSeq(s, 1, Len(s) - 1)) + to_digit(s[Len(s)])

\* The outcomes of a conversion: a value, an Err, a panic.
AmountOk(inner) == [kind |-> "Ok", inner |-> inner]
AmountErr == [kind |-> "Err"]
AmountPanic == [kind |-> "Panic"]

\* impl From<(&str,&str)> for TxAmount. Nothing compares precision with 4:
\* for precision > 4 the u32 subtraction 4 - precision overflows. A build with
\* overflow checks panics there; a build without wraps it to a u32 above 63,
\* and 10isize.pow of that wraps to 0 (10^e is a multiple of 2^64 from e = 64).
TxAmount_from(tx_amount1, tx_amount2, overflow_checks) ==
    LET precision == Len(tx_amount2)
        integral == from_str_radix(tx_amount1)
        fractional == from_str_radix(tx_amount2)
    IN IF precision <= 4
       THEN AmountOk(integral * 10 ^ 4 + fractional * 10 ^ (4 - precision))
       ELSE IF overflow_checks
            THEN AmountPanic
            ELSE AmountOk(integral * 10 ^ 4 + fractional * 0)

\* isize::abs, and the / and % of isize, which truncate towards zero.
abs(n) == IF n < 0 THEN 0 - n ELSE n
div(a, b) == IF a < 0 THEN 0 - ((0 - a) \div b) ELSE a \div b
rem(a, b) == a - b * div(a, b)

\* {} of a non-negative isize: its decimal digits.
RECURSIVE Decimal(_)
Decimal(n) ==
    IF n < 10
    THEN <<DigitChars[n + 1]>>
    ELSE Decimal(n \div 10) \o <<DigitChars[(n % 10) + 1]>>

\* {} of an isize.
fmt_isize(n) == IF n < 0 THEN <<"-">> \o Decimal(0 - n) ELSE Decimal(n)

\* {:0width$} of a non-negative isize.
fmt_padded(n, width) ==
    LET digits == Decimal(n)
    IN IF Len(digits) >= width
       THEN digits
       ELSE [i \in 1..(width - Len(digits)) |-> "0"] \o digits

\* impl Display for TxAmount: write!(f, "{}.{:04}", integral, fractional)
TxAmount_fmt(inner) ==
    LET integral == div(inner, PRECISION_FACTOR)
        fractional == abs(rem(inner, PRECISION_FACTOR))
    IN fmt_isize(integral) \o <<".">> \o fmt_padded(fractional, 4)

\* ---------------------------------------------------------- fp_isize.rs
precision_factor(precision) == 10 ^ precision

\* impl TryFrom<(&str,&str)> for FpIsize<PRECISION>
FpIsize_try_from(integral, fractional) ==
    LET precision == Len(fractional)
    IN IF precision > PRECISION
       THEN AmountErr
       ELSE AmountOk(from_str_radix(integral) * 10 ^ PRECISION
                       + from_str_radix(fractional) * 10 ^ (PRECISION - precision))

\* impl Display for FpIsize<PRECISION>
FpIsize_fmt(inner) ==
    LET integral == abs(div(inner, precision_factor(PRECISION)))
        fractional == abs(rem(inner, precision_factor(PRECISION)))
    IN IF inner < 0
       THEN <<"-">> \o fmt_isize(integral) \o <<".">>
                \o fmt_padded(fractional, PRECISION)
       ELSE fmt_isize(integral) \o <<".">> \o fmt_padded(fractional, PRECISION)

\* ------------------------------------------------------- transaction.rs
TransactionDelta(available, held) == [available |-> available, held |-> held]

Transaction(amount, state) == [amount |-> amount, state |-> state]

TxOk(transaction, delta) ==
    [ok |-> TRUE, transaction |-> transaction, delta |-> delta]

\* TransactionError::{NegativeDeposit, NegativeWithdrawal,
\* InvalidTransactionStateTransition(src, dst)}
TxErr(kind, src, dst) ==
    [ok |-> FALSE, kind |-> kind, src |-> src, dst |-> dst]

\* Mutant: the sign check of deposit dropped.
Transaction_deposit_unsigned(amount) ==
    TxOk(Transaction(amount, "New"), TransactionDelta(amount, zero))

Transaction_deposit(amount) ==
    IF amount < zero
    THEN TxErr("NegativeDeposit", "-", "-")
    ELSE TxOk(Transaction(amount, "New"), TransactionDelta(amount, zero))

\* Mutant: withdraw keeps the amount's sign instead of negating it.
Transaction_withdraw_unnegated(amount) ==
    IF amount < zero
    THEN TxErr("NegativeWithdrawal", "-", "-")
    ELSE TxOk(Transaction(amount, "New"), TransactionDelta(amount, zero))

\* Mutant: the sign check of withdraw dropped.
Transaction_withdraw_unsigned(amount) ==
    LET neg == 0 - amount
    IN TxOk(Transaction(neg, "New"), TransactionDelta(neg, zero))

Transaction_withdraw(amount) ==
    IF amount < zero
    THEN TxErr("NegativeWithdrawal", "-", "-")
    ELSE LET neg == 0 - amount
         IN TxOk(Transaction(neg, "New"), TransactionDelta(neg, zero))

\* Mutant: dispute accepted from every state but Disputed.
Transaction_dispute_again(self) ==
    IF self.state # "Disputed"
    THEN TxOk(Transaction(self.amount, "Disputed"),
              TransactionDelta(0 - self.amount, self.amount))
    ELSE TxErr("InvalidTransactionStateTransition", self.state, "Disputed")

\* Mutant: the dispute moves the magnitude of the amount from available to
\* held, whatever its sign.
Transaction_dispute_abs(self) ==
    IF self.state = "New"
    THEN LET magnitude == IF self.amount < 0 THEN 0 - self.amount ELSE self.amount
         IN TxOk(Transaction(self.amount, "Disputed"),
                 TransactionDelta(0 - magnitude, magnitude))
    ELSE TxErr("InvalidTransactionStateTransition", self.state, "Disputed")

Transaction_dispute(self) ==
    IF self.state = "New"
    THEN TxOk(Transaction(self.amount, "Disputed"),
              TransactionDelta(0 - self.amount, self.amount))
    ELSE TxErr("InvalidTransactionStateTransition", self.state, "Disputed")

\* Mutant: resolve gives the amount back but does not release the hold.
Transaction_resolve_keeps_held(self) ==
    IF self.state = "Disputed"
    THEN TxOk(Transaction(self.amount, "Resolved"),
              TransactionDelta(self.amount, zero))
    ELSE TxErr("InvalidTransactionStateTransition", self.state, "Resolved")

Transaction_resolve(self) ==
    IF self.state = "Disputed"
    THEN TxOk(Transaction(self.amount, "Resolved"),
              TransactionDelta(self.amount, 0 - self.amount))
    ELSE TxErr("InvalidTransactionStateTransition", self.state, "Resolved")

\* Mutant: chargeback hands the amount back like resolve does.
Transaction_chargeback_refunds(self) ==
    IF self.state = "Disputed"
    THEN TxOk(Transaction(self.amount, "Chargeback"),
              TransactionDelta(self.amount, 0 - self.amount))
    ELSE TxErr("InvalidTransactionStateTransition", self.state, "Chargeback")

\* Mutant: chargeback leaves the amount held.
Transaction_chargeback_keeps_held(self) ==
    IF self.state = "Disputed"
    THEN TxOk(Transaction(self.amount, "Chargeback"), TransactionDelta(zero, zero))
    ELSE TxErr("InvalidTransactionStateTransition", self.state, "Chargeback")

Transaction_chargeback(self) ==
    IF self.state = "Disputed"
    THEN TxOk(Transaction(self.amount, "Chargeback"),
              TransactionDelta(zero, 0 - self.amount))
    ELSE TxErr("InvalidTransactionStateTransition", self.state, "Chargeback")

\* ------------------------------------------------------------- error.rs
Ok == [kind |-> "Ok"]

\* ProcessorError: every variant carries the item's client and tx id; the
\* state-transition variant also the two transaction states, and
\* MissingTransaction the item's action.
ProcessorError(kind, item, src, dst) ==
    [kind |-> kind, client_id |-> item.client_id, tx_id |-> item.tx_id,
     src |-> src, dst |-> dst,
     action |-> IF kind = "MissingTransaction" THEN item.action ELSE [kind |-> "-"]]

\* impl From<(&LedgerItem, TransactionError)> for ProcessorError
ProcessorError_from(item, e) == ProcessorError(e.kind, item, e.src, e.dst)

\* ----------------------------------------------------------- account.rs
\* transactions is a BTreeMap<TxID, Transaction>: a function on the ids held.
EmptyMap == [k \in {} |-> 0]

Insert(map, key, value) ==
    [k \in (DOMAIN map) \cup {key} |-> IF k = key THEN value ELSE map[k]]

Account_new ==
    [state |-> "Active", available |-> zero, held |-> zero,
     transactions |-> EmptyMap]

\* The value a fallible &mut self method leaves behind: the account after the
\* call and the Result it returns.
Outcome(account, result) == [account |-> account, result |-> result]

apply_delta_unchecked(self, delta) ==
    [self EXCEPT !.available = @ + delta.available, !.held = @ + delta.held]

\* Mutant: the delta is applied before the funds check rejects it.
apply_delta_partial(self, delta, item) ==
    IF self.available + delta.available < zero
    THEN Outcome(apply_delta_unchecked(self, delta),
                 ProcessorError("InsufficientFunds", item, "-", "-"))
    ELSE Outcome(apply_delta_unchecked(self, delta), Ok)

apply_delta(self, delta, item) ==
    IF self.available + delta.available < zero
    THEN Outcome(self, ProcessorError("InsufficientFunds", item, "-", "-"))
    ELSE Outcome(apply_delta_unchecked(self, delta), Ok)

\* Mutant: lock leaves the account Active.
lock_noop(self) == self

lock(self) == [self EXCEPT !.state = "Locked"]

\* Mutant: the delta of a dispute, resolve or chargeback goes through the
\* funds check of apply_delta.
process_existing_checked(self, item) ==
    LET transaction == self.transactions[item.tx_id]
        kind == item.action.kind
        r == CASE kind = "Dispute" -> Transaction_dispute(transaction)
               [] kind = "Resolve" -> Transaction_resolve(transaction)
               [] kind = "Chargeback" -> Transaction_chargeback(transaction)
               [] OTHER -> TxErr("DuplicateTransaction", "-", "-")
    IN IF ~r.ok
       THEN Outcome(self, ProcessorError_from(item, r))
       ELSE LET stored == [self EXCEPT !.transactions[item.tx_id] = r.transaction]
                locked == IF kind = "Chargeback" THEN lock(stored) ELSE stored
                applied == apply_delta(locked, r.delta, item)
            IN IF applied.result # Ok THEN Outcome(self, applied.result) ELSE applied

\* The branch of process_internal taken when tx_id is in the map.
process_existing(self, item) ==
    LET transaction == self.transactions[item.tx_id]
        kind == item.action.kind
        r == CASE kind = "Dispute" -> Transaction_dispute(transaction)
               [] kind = "Resolve" -> Transaction_resolve(transaction)
               [] kind = "Chargeback" -> Transaction_chargeback(transaction)
               [] OTHER -> TxErr("DuplicateTransaction", "-", "-")
    IN IF ~r.ok
       THEN Outcome(self, ProcessorError_from(item, r))
       ELSE LET stored == [self EXCEPT !.transactions[item.tx_id] = r.transaction]
                locked == IF kind = "Chargeback" THEN lock(stored) ELSE stored
            IN Outcome(apply_delta_unchecked(locked, r.delta), Ok)

\* The branch of process_internal taken when tx_id is not in the map.
process_new(self, item) ==
    LET kind == item.action.kind
    IN CASE kind = "Deposit" ->
            LET r == Transaction_deposit(item.action.amount)
            IN IF ~r.ok
               THEN Outcome(self, ProcessorError_from(item, r))
               ELSE LET applied == apply_delta_unchecked(self, r.delta)
                    IN Outcome([applied EXCEPT !.transactions =
                                    Insert(@, item.tx_id, r.transaction)], Ok)
         [] kind = "Withdrawal" ->
            LET r == Transaction_withdraw(item.action.amount)
            IN IF ~r.ok
               THEN Outcome(self, ProcessorError_from(item, r))
               ELSE LET applied == apply_delta(self, r.delta, item)
                    IN IF applied.result # Ok
                       THEN applied
                       ELSE Outcome([applied.account EXCEPT !.transactions =
                                        Insert(@, item.tx_id, r.transaction)], Ok)
         [] OTHER ->
            Outcome(self, ProcessorError("MissingTransaction", item, "-", "-"))

\* Mutant: the lookup of tx_id is skipped, every item is treated as new.
process_internal_always_new(self, item) == process_new(self, item)

process_internal(self, item) ==
    IF item.tx_id \in DOMAIN self.transactions
    THEN process_existing(self, item)
    ELSE process_new(self, item)

\* Mutant: the Locked check is dropped.
Account_process_unlocked(self, item) == process_internal(self, item)

Account_process(self, item) ==
    IF self.state = "Locked"
    THEN Outcome(self, ProcessorError("LockedAccount", item, "-", "-"))
    ELSE process_internal(self, item)

is_locked(self) == self.state = "Locked"

is_active(self) == self.state = "Active"

\* Mutant: total reports the available amount only.
total_available(self) == self.available

total(self) == self.available + self.held

\* --------------------------------------------------- account_manager.rs
AccountManager_new == EmptyMap

ManagerOutcome(manager, result) == [manager |-> manager, result |-> result]

\* Mutant: the new account is inserted before its first item is processed and
\* stays when that item fails.
AccountManager_process_keep(self, item) ==
    IF item.client_id \in DOMAIN self
    THEN LET out == Account_process(self[item.client_id], item)
         IN ManagerOutcome([self EXCEPT ![item.client_id] = out.account],
                           out.result)
    ELSE LET out == Account_process(Account_new, item)
         IN ManagerOutcome(Insert(self, item.client_id, out.account), out.result)

\* AccountManager::process: an account found is processed in place; a new
\* account is inserted only when its first item succeeds.
AccountManager_process(self, item) ==
    IF item.client_id \in DOMAIN self
    THEN LET out == Account_process(self[item.client_id], item)
         IN ManagerOutcome([self EXCEPT ![item.client_id] = out.account],
                           out.result)
    ELSE LET out == Account_process(Account_new, item)
         IN IF out.result # Ok
            THEN ManagerOutcome(self, out.result)
            ELSE ManagerOutcome(Insert(self, item.client_id, out.account), Ok)

\* Mutant: the keys are visited from the greatest down.
RECURSIVE iter_descending(_)
iter_descending(keys) ==
    IF keys = {}
    THEN <<>>
    ELSE LET greatest == CHOOSE k \in keys : \A other \in keys : k >= other
         IN <<greatest>> \o iter_descending(keys \ {greatest})

\* AccountManager::iter: the keys of the BTreeMap in ascending order.
RECURSIVE iter(_)
iter(keys) ==
    IF keys = {}
    THEN <<>>
    ELSE LET least == CHOOSE k \in keys : \A other \in keys : k <= other
         IN <<least>> \o iter(keys \ {least})

\* AccountManagerMessage
ProcessMsg(item) == [kind |-> "Process", item |-> item]
DumpMsg == [kind |-> "Dump"]
StopMsg == [kind |-> "Stop"]

\* Mutant: available and held change places in the tuple.
Summary_swapped(client_id, acc) ==
    [client_id |-> client_id, available |-> acc.held, held |-> acc.available,
     total |-> total(acc), locked |-> is_locked(acc)]

\* The tuple a task sends for one account in answer to Dump.
Summary(client_id, acc) ==
    [client_id |-> client_id, available |-> acc.available, held |-> acc.held,
     total |-> total(acc), locked |-> is_locked(acc)]

\* Mutant: the count is only required not to be 0.
count_ones_nonzero(n) == IF n = 0 THEN 0 ELSE 1

\* usize::count_ones
RECURSIVE count_ones(_)
count_ones(n) == IF n = 0 THEN 0 ELSE (n % 2) + count_ones(n \div 2)

\* The & of two unsigned integers.
RECURSIVE BitAnd(_, _)
BitAnd(a, b) ==
    IF a = 0 \/ b = 0
    THEN 0
    ELSE (a % 2) * (b % 2) + 2 * BitAnd(a \div 2, b \div 2)

\* Mutant: the client id is left out of the index.
index_first(client_id, mask_) == 0

\* Mutant: the mask is applied one bit too high.
index_shifted(client_id, mask_) == BitAnd(client_id \div 2, mask_)

\* AccountManagerLoadbalancer::process: let index = item.client_id & self.mask
index(client_id, mask_) == BitAnd(client_id, mask_)

\* ------------------------------------------------------------ variables
VARIABLES
    account,     \* Spec: the Account driven through Account::process
    count,       \* the argument of AccountManagerLoadbalancer::spawn
    mask,        \* AccountManagerLoadbalancer.mask
    mainPc,      \* where main is: start, read, send, dump, recv, stop, join, done
    taskIdx,     \* the position of the for loop over tasks in dump, stop, join
    lines,       \* the number of lines main has read
    pending,     \* the item main is sending
    queue,       \* per task: the messages in its channel
    manager,     \* per task: its AccountManager
    workerPc,    \* per task: recv (in the while let), dump (in the for), done
    dumpLeft,    \* per task: the client ids its Dump has still to send
    sink,        \* the records in the dump channel
    sinkSenders, \* the live Senders of the dump channel
    output,      \* the records main has received and written
    submitted,   \* history: the items whose send completed, in order
    handled,     \* history, per task: the items processed, with their Results
    amtPc,       \* SpecAmount: input, value, negated, shown, failed
    amtArgs,     \* the type converted to and the two strings given to it
    amtResult,   \* what the conversion returned
    amtValue,    \* the inner isize of the amount in hand
    amtText      \* what Display wrote for the amount in hand

shardVars ==
    <<count, mask, mainPc, taskIdx, lines, pending, queue, manager, workerPc,
      dumpLeft, sink, sinkSenders, output, submitted, handled>>

amountVars == <<amtPc, amtArgs, amtResult, amtValue, amtText>>

vars == <<account, shardVars, amountVars>>

\* The client id the tests of account.rs put in every item.
TestClient == 1

Items == {LedgerItem(TestClient, t, a) : t \in TxIDs, a \in LedgerAction(Amounts)}

\* The lines of the sharded specification: every client has one transaction
\* id of its own, and the amount is MaxAmount.
Lines == {LedgerItem(c, c + 1, a) : c \in Clients, a \in LedgerAction({MaxAmount})}

NoItem == LedgerItem(0, 0, [kind |-> "None"])

Tasks == DOMAIN queue

\* The strings of the amount specification: decimal digits up to MaxDigit, an
\* integral part of up to MaxIntegralLen of them, a fractional part of up to
\* one more than PRECISION.
Strings(maxLen) ==
    UNION {[1..n -> {DigitChars[d + 1] : d \in 0..MaxDigit}] : n \in 1..maxLen}
Integrals == Strings(MaxIntegralLen)
Fractionals == Strings(PRECISION + 1)
AmountTypes == {"TxAmount", "FpIsize"}
NoArgs == [ty |-> "-", integral |-> <<>>, fractional |-> <<>>]

\* The counts main may pass to spawn: every count up to MaxCount, and an odd
\* count beyond it.
Counts == 0..MaxCount \cup {2 * MaxCount + 1}

Init ==
    /\ account = Account_new
    /\ count = 0
    /\ mask = 0
    /\ mainPc = "start"
    /\ taskIdx = 0
    /\ lines = 0
    /\ pending = NoItem
    /\ queue = EmptyMap
    /\ manager = EmptyMap
    /\ workerPc = EmptyMap
    /\ dumpLeft = EmptyMap
    /\ sink = <<>>
    /\ sinkSenders = 0
    /\ output = <<>>
    /\ submitted = <<>>
    /\ handled = EmptyMap
    /\ amtPc = "input"
    /\ amtArgs = NoArgs
    /\ amtResult = [kind |-> "-"]
    /\ amtValue = zero
    /\ amtText = <<>>

\* ------------------------------------------------------------------ Spec
\* One call account.process(item); the Result is returned to the caller.
Process(item) ==
    /\ account' = Account_process(account, item).account
    /\ UNCHANGED <<shardVars, amountVars>>

Next == \E item \in Items : Process(item)

Spec == Init /\ [][Next]_vars

\* ----------------------------------------------------------- SpecSharded
\* AccountManagerLoadbalancer::spawn(n): the assert, then one task per index.
Spawn(n) ==
    /\ mainPc = "start"
    /\ count' = n
    /\ IF count_ones(n) = 1
       THEN /\ mask' = n - 1
            /\ queue' = [i \in 0..(n - 1) |-> <<>>]
            /\ manager' = [i \in 0..(n - 1) |-> AccountManager_new]
            /\ workerPc' = [i \in 0..(n - 1) |-> "recv"]
            /\ dumpLeft' = [i \in 0..(n - 1) |-> <<>>]
            /\ handled' = [i \in 0..(n - 1) |-> <<>>]
            /\ mainPc' = "read"
       ELSE /\ mainPc' = "panicked"
            /\ UNCHANGED <<mask, queue, manager, workerPc, dumpLeft, handled>>
    /\ UNCHANGED <<amountVars, account, taskIdx, lines, pending, sink, sinkSenders, output,
                   submitted>>

\* main: lines.next_line() yields a line that parses to item.
ReadLine(item) ==
    /\ mainPc = "read"
    /\ lines < MaxEvents
    /\ lines' = lines + 1
    /\ pending' = item
    /\ mainPc' = "send"
    /\ UNCHANGED <<amountVars, account, count, mask, taskIdx, queue, manager, workerPc,
                   dumpLeft, sink, sinkSenders, output, submitted, handled>>

\* main: the input has ended; the dump channel is made and dump(sender) called.
EndOfInput ==
    /\ mainPc = "read"
    /\ mainPc' = "dump"
    /\ taskIdx' = 0
    /\ sink' = <<>>
    /\ sinkSenders' = 1
    /\ UNCHANGED <<amountVars, account, count, mask, lines, pending, queue, manager,
                   workerPc, dumpLeft, output, submitted, handled>>

\* Mutant: the send is a try_send, so an item that finds the channel full is
\* dropped and main goes on.
Submit_try ==
    /\ mainPc = "send"
    /\ LET i == index(pending.client_id, mask)
       IN queue' = IF Len(queue[i]) < ChannelCapacity
                   THEN [queue EXCEPT ![i] = Append(@, ProcessMsg(pending))]
                   ELSE queue
    /\ submitted' = Append(submitted, pending)
    /\ pending' = NoItem
    /\ mainPc' = "read"
    /\ UNCHANGED <<amountVars, account, count, mask, taskIdx, lines, manager, workerPc,
                   dumpLeft, sink, sinkSenders, output, handled>>

\* Mutant: the send does not wait for room in the channel.
Submit_unbounded ==
    /\ mainPc = "send"
    /\ LET i == index(pending.client_id, mask)
       IN queue' = [queue EXCEPT ![i] = Append(@, ProcessMsg(pending))]
    /\ submitted' = Append(submitted, pending)
    /\ pending' = NoItem
    /\ mainPc' = "read"
    /\ UNCHANGED <<amountVars, account, count, mask, taskIdx, lines, manager,
                   workerPc, dumpLeft, sink, sinkSenders, output, handled>>

\* AccountManagerLoadbalancer::process and AccountManagerTask::process: the
\* send completes once the channel of the task has room.
Submit ==
    /\ mainPc = "send"
    /\ LET i == index(pending.client_id, mask)
       IN /\ Len(queue[i]) < ChannelCapacity
          /\ queue' = [queue EXCEPT ![i] = Append(@, ProcessMsg(pending))]
    /\ submitted' = Append(submitted, pending)
    /\ pending' = NoItem
    /\ mainPc' = "read"
    /\ UNCHANGED <<amountVars, account, count, mask, taskIdx, lines, manager, workerPc,
                   dumpLeft, sink, sinkSenders, output, handled>>

\* Mutant: the Dump does not wait for room and overtakes what the channel holds.
DumpTask_overtaking ==
    /\ mainPc = "dump"
    /\ queue' = [queue EXCEPT ![taskIdx] = <<DumpMsg>> \o @]
    /\ IF taskIdx + 1 < count
       THEN /\ taskIdx' = taskIdx + 1
            /\ sinkSenders' = sinkSenders + 1
            /\ mainPc' = "dump"
       ELSE /\ taskIdx' = 0
            /\ sinkSenders' = sinkSenders
            /\ mainPc' = "recv"
    /\ UNCHANGED <<amountVars, account, count, mask, lines, pending, manager, workerPc,
                   dumpLeft, sink, output, submitted, handled>>

\* Mutant: dump clones the sender for the last task too and its own stays alive.
DumpTask_keeps_sender ==
    /\ mainPc = "dump"
    /\ Len(queue[taskIdx]) < ChannelCapacity
    /\ queue' = [queue EXCEPT ![taskIdx] = Append(@, DumpMsg)]
    /\ sinkSenders' = sinkSenders + 1
    /\ IF taskIdx + 1 < count
       THEN /\ taskIdx' = taskIdx + 1
            /\ mainPc' = "dump"
       ELSE /\ taskIdx' = 0
            /\ mainPc' = "recv"
    /\ UNCHANGED <<amountVars, account, count, mask, lines, pending, manager, workerPc,
                   dumpLeft, sink, output, submitted, handled>>

\* AccountManagerLoadbalancer::dump: one turn of the for loop sends Dump with
\* a clone of the sender; after the last turn dump returns and drops its own.
DumpTask ==
    /\ mainPc = "dump"
    /\ Len(queue[taskIdx]) < ChannelCapacity
    /\ queue' = [queue EXCEPT ![taskIdx] = Append(@, DumpMsg)]
    /\ IF taskIdx + 1 < count
       THEN /\ taskIdx' = taskIdx + 1
            /\ sinkSenders' = sinkSenders + 1
            /\ mainPc' = "dump"
       ELSE /\ taskIdx' = 0
            /\ sinkSenders' = sinkSenders
            /\ mainPc' = "recv"
    /\ UNCHANGED <<amountVars, account, count, mask, lines, pending, manager, workerPc,
                   dumpLeft, sink, output, submitted, handled>>

\* main: receiver.recv() yields a record, which is written.
MainRecv ==
    /\ mainPc = "recv"
    /\ sink # <<>>
    /\ output' = Append(output, Head(sink))
    /\ sink' = Tail(sink)
    /\ UNCHANGED <<amountVars, account, count, mask, mainPc, taskIdx, lines, pending, queue,
                   manager, workerPc, dumpLeft, sinkSenders, submitted, handled>>

\* Mutant: an empty dump channel is taken for a closed one.
MainRecvClosed_empty ==
    /\ mainPc = "recv"
    /\ sink = <<>>
    /\ mainPc' = "stop"
    /\ taskIdx' = 0
    /\ UNCHANGED <<amountVars, account, count, mask, lines, pending, queue, manager,
                   workerPc, dumpLeft, sink, sinkSenders, output, submitted,
                   handled>>

\* main: receiver.recv() yields None, every Sender is dropped; stop() begins.
MainRecvClosed ==
    /\ mainPc = "recv"
    /\ sink = <<>>
    /\ sinkSenders = 0
    /\ mainPc' = "stop"
    /\ taskIdx' = 0
    /\ UNCHANGED <<amountVars, account, count, mask, lines, pending, queue, manager,
                   workerPc, dumpLeft, sink, sinkSenders, output, submitted,
                   handled>>

\* AccountManagerLoadbalancer::stop: one turn of the for loop sends Stop.
StopTask ==
    /\ mainPc = "stop"
    /\ Len(queue[taskIdx]) < ChannelCapacity
    /\ queue' = [queue EXCEPT ![taskIdx] = Append(@, StopMsg)]
    /\ IF taskIdx + 1 < count
       THEN /\ taskIdx' = taskIdx + 1
            /\ mainPc' = "stop"
       ELSE /\ taskIdx' = 0
            /\ mainPc' = "join"
    /\ UNCHANGED <<amountVars, account, count, mask, lines, pending, manager, workerPc,
                   dumpLeft, sink, sinkSenders, output, submitted, handled>>

\* Mutant: join does not await the handle.
JoinTask_nowait ==
    /\ mainPc = "join"
    /\ IF taskIdx + 1 < count
       THEN /\ taskIdx' = taskIdx + 1
            /\ mainPc' = "join"
       ELSE /\ taskIdx' = 0
            /\ mainPc' = "done"
    /\ UNCHANGED <<amountVars, account, count, mask, lines, pending, queue, manager,
                   workerPc, dumpLeft, sink, sinkSenders, output, submitted,
                   handled>>

\* AccountManagerLoadbalancer::join: one turn of the for loop awaits a handle.
JoinTask ==
    /\ mainPc = "join"
    /\ workerPc[taskIdx] = "done"
    /\ IF taskIdx + 1 < count
       THEN /\ taskIdx' = taskIdx + 1
            /\ mainPc' = "join"
       ELSE /\ taskIdx' = 0
            /\ mainPc' = "done"
    /\ UNCHANGED <<amountVars, account, count, mask, lines, pending, queue, manager,
                   workerPc, dumpLeft, sink, sinkSenders, output, submitted,
                   handled>>

\* Mutant: an error of manager.process ends the task's loop.
WorkerProcess_fatal(s) ==
    /\ workerPc[s] = "recv"
    /\ queue[s] # <<>>
    /\ Head(queue[s]).kind = "Process"
    /\ LET item == Head(queue[s]).item
           out == AccountManager_process(manager[s], item)
       IN /\ manager' = [manager EXCEPT ![s] = out.manager]
          /\ handled' = [handled EXCEPT
                            ![s] = Append(@, [item |-> item, result |-> out.result])]
          /\ workerPc' = IF out.result = Ok
                         THEN workerPc
                         ELSE [workerPc EXCEPT ![s] = "done"]
    /\ queue' = [queue EXCEPT ![s] = Tail(@)]
    /\ UNCHANGED <<amountVars, account, count, mask, mainPc, taskIdx, lines, pending,
                   dumpLeft, sink, sinkSenders, output, submitted>>

\* The task's loop receives Process(item): manager.process(item), an error is
\* printed and the loop goes on.
WorkerProcess(s) ==
    /\ workerPc[s] = "recv"
    /\ queue[s] # <<>>
    /\ Head(queue[s]).kind = "Process"
    /\ LET item == Head(queue[s]).item
           out == AccountManager_process(manager[s], item)
       IN /\ manager' = [manager EXCEPT ![s] = out.manager]
          /\ handled' = [handled EXCEPT
                            ![s] = Append(@, [item |-> item, result |-> out.result])]
    /\ queue' = [queue EXCEPT ![s] = Tail(@)]
    /\ UNCHANGED <<amountVars, account, count, mask, mainPc, taskIdx, lines, pending,
                   workerPc, dumpLeft, sink, sinkSenders, output, submitted>>

\* The task's loop receives Dump(sender): the for loop over manager.iter()
\* starts; over an empty manager it ends at once and the sender is dropped.
WorkerDump(s) ==
    /\ workerPc[s] = "recv"
    /\ queue[s] # <<>>
    /\ Head(queue[s]).kind = "Dump"
    /\ queue' = [queue EXCEPT ![s] = Tail(@)]
    /\ LET keys == iter(DOMAIN manager[s])
       IN IF keys = <<>>
          THEN /\ sinkSenders' = sinkSenders - 1
               /\ UNCHANGED <<workerPc, dumpLeft>>
          ELSE /\ workerPc' = [workerPc EXCEPT ![s] = "dump"]
               /\ dumpLeft' = [dumpLeft EXCEPT ![s] = keys]
               /\ UNCHANGED sinkSenders
    /\ UNCHANGED <<amountVars, account, count, mask, mainPc, taskIdx, lines, pending,
                   manager, sink, output, submitted, handled>>

\* One turn of the task's for loop: sender.send(summary) completes once the
\* dump channel has room; after the last turn the sender is dropped.
WorkerEmit(s) ==
    /\ workerPc[s] = "dump"
    /\ Len(sink) < SinkCapacity
    /\ LET client_id == Head(dumpLeft[s])
       IN sink' = Append(sink, Summary(client_id, manager[s][client_id]))
    /\ dumpLeft' = [dumpLeft EXCEPT ![s] = Tail(@)]
    /\ IF Tail(dumpLeft[s]) = <<>>
       THEN /\ workerPc' = [workerPc EXCEPT ![s] = "recv"]
            /\ sinkSenders' = sinkSenders - 1
       ELSE UNCHANGED <<workerPc, sinkSenders>>
    /\ UNCHANGED <<amountVars, account, count, mask, mainPc, taskIdx, lines, pending, queue,
                   manager, output, submitted, handled>>

\* The task's loop receives Stop: break, the task ends.
WorkerStop(s) ==
    /\ workerPc[s] = "recv"
    /\ queue[s] # <<>>
    /\ Head(queue[s]).kind = "Stop"
    /\ queue' = [queue EXCEPT ![s] = Tail(@)]
    /\ workerPc' = [workerPc EXCEPT ![s] = "done"]
    /\ UNCHANGED <<amountVars, account, count, mask, mainPc, taskIdx, lines, pending,
                   manager, dumpLeft, sink, sinkSenders, output, submitted,
                   handled>>

NextSharded ==
    \/ \E n \in Counts : Spawn(n)
    \/ \E item \in Lines : ReadLine(item)
    \/ EndOfInput
    \/ Submit
    \/ DumpTask
    \/ MainRecv
    \/ MainRecvClosed
    \/ StopTask
    \/ JoinTask
    \/ \E s \in Tasks : WorkerProcess(s)
    \/ \E s \in Tasks : WorkerDump(s)
    \/ \E s \in Tasks : WorkerEmit(s)
    \/ \E s \in Tasks : WorkerStop(s)

SpecSharded == Init /\ [][NextSharded]_vars

\* ------------------------------------------------------- SpecShardedFair
\* The steps of main (#[tokio::main] async fn main) and of the task s
\* (tokio::spawn in AccountManagerTask::spawn). The tokio runtime polls every
\* future that can make progress, so a step that stays possible is taken.
MainStep ==
    \/ \E n \in Counts : Spawn(n)
    \/ \E item \in Lines : ReadLine(item)
    \/ EndOfInput
    \/ Submit
    \/ DumpTask
    \/ MainRecv
    \/ MainRecvClosed
    \/ StopTask
    \/ JoinTask

WorkerStep(s) ==
    /\ s \in Tasks
    /\ \/ WorkerProcess(s)
       \/ WorkerDump(s)
       \/ WorkerEmit(s)
       \/ WorkerStop(s)

SpecShardedFair ==
    /\ Init /\ [][NextSharded]_vars
    /\ WF_vars(MainStep)
    /\ \A s \in 0..(MaxCount - 1) : WF_vars(WorkerStep(s))

\* ------------------------------------------------------------ SpecAmount
\* One amount: made from two strings of digits, as parse_tx_amount makes it
\* from what digit1 '.' digit1 matched, negated or not, as Transaction::withdraw
\* does, and written with Display, as main writes the fields of a record. The
\* build has overflow checks or has none.
Parse(ty, integral, fractional, overflow_checks) ==
    /\ amtPc = "input"
    /\ amtArgs' = [ty |-> ty, integral |-> integral, fractional |-> fractional]
    /\ LET result == IF ty = "TxAmount"
                     THEN TxAmount_from(integral, fractional, overflow_checks)
                     ELSE FpIsize_try_from(integral, fractional)
       IN /\ amtResult' = result
          /\ IF result.kind = "Ok"
             THEN amtValue' = result.inner /\ amtPc' = "value"
             ELSE amtValue' = amtValue /\ amtPc' = "failed"
    /\ UNCHANGED <<account, shardVars, amtText>>

\* impl Neg: Self::new(-self.inner)
Negate ==
    /\ amtPc = "value"
    /\ amtValue' = 0 - amtValue
    /\ amtPc' = "negated"
    /\ UNCHANGED <<account, shardVars, amtArgs, amtResult, amtText>>

\* format!("{}", amount)
Show ==
    /\ amtPc \in {"value", "negated"}
    /\ amtText' = IF amtArgs.ty = "TxAmount"
                  THEN TxAmount_fmt(amtValue)
                  ELSE FpIsize_fmt(amtValue)
    /\ amtPc' = "shown"
    /\ UNCHANGED <<account, shardVars, amtArgs, amtResult, amtValue>>

NextAmount ==
    \/ /\ amtPc = "input"
       /\ \E ty \in AmountTypes, integral \in Integrals,
             fractional \in Fractionals, overflow_checks \in BOOLEAN :
              Parse(ty, integral, fractional, overflow_checks)
    \/ Negate
    \/ Show

SpecAmount == Init /\ [][NextAmount]_vars

\* =============================================================== claims
\* Helpers of the claims' formulas.
Known == DOMAIN account.transactions
Unknown == TxIDs \ Known
Item(t, a) == LedgerItem(TestClient, t, a)
Call(t, a) == Account_process(account, Item(t, a))
NonNegative == {a \in Amounts : a >= 0}
Negative == {a \in Amounts : a < 0}

\* C1: once an account is Locked, every later Account.process call, whatever
\* its action and tx id, fails with LockedAccount and leaves the balances, the
\* account state and the transaction map as they are; no step makes the
\* account Active again.
C1_LockedRejectsAll ==
    account.state = "Locked" =>
        \A item \in Items :
            LET out == Account_process(account, item)
            IN /\ out.result = ProcessorError("LockedAccount", item, "-", "-")
               /\ out.account = account
C1_LockedIsTerminal ==
    /\ [](C1_LockedRejectsAll)
    /\ [][account.state = "Locked" => account' = account]_vars
C1_Witness ==
    /\ account.state = "Locked"
    /\ \E t \in Known : account.transactions[t].state = "Chargeback"
    /\ Unknown # {}

\* C2: on an Active account a Withdrawal with a new tx id and amount a >= 0
\* succeeds iff available - a >= 0; otherwise it fails with InsufficientFunds,
\* changes neither balance and does not insert the transaction, so that a later
\* Deposit with the same tx id is accepted as a new transaction.
C2_WithdrawalFunds ==
    account.state = "Active" =>
        \A t \in Unknown : \A a \in NonNegative :
            LET out == Call(t, Withdrawal(a))
            IN IF account.available - a >= 0
               THEN /\ out.result = Ok
                    /\ t \in DOMAIN out.account.transactions
               ELSE /\ out.result.kind = "InsufficientFunds"
                    /\ out.account.available = account.available
                    /\ out.account.held = account.held
                    /\ DOMAIN out.account.transactions = Known
                    /\ \A b \in NonNegative :
                           LET again == Account_process(out.account, Item(t, Deposit(b)))
                           IN /\ again.result = Ok
                              /\ again.account.transactions[t] = Transaction(b, "New")
C2_Witness ==
    /\ account.state = "Active"
    /\ Unknown # {}
    /\ \E t \in Known : account.transactions[t].amount < 0
    /\ account.available >= 0
    /\ account.available < MaxAmount

\* C3: on an Active account, for each of its transactions in state New, a
\* Dispute followed at once by a Resolve of the same tx id both succeed, and
\* leave available and held at their values before the dispute and the account
\* Active.
C3_DisputeResolveRoundTrip ==
    account.state = "Active" =>
        \A t \in Known :
            account.transactions[t].state = "New" =>
                LET disputed == Call(t, Dispute)
                    resolved == Account_process(disputed.account, Item(t, Resolve))
                IN /\ disputed.result = Ok
                   /\ disputed.account.transactions[t].state = "Disputed"
                   /\ resolved.result = Ok
                   /\ resolved.account.transactions[t].state = "Resolved"
                   /\ resolved.account.available = account.available
                   /\ resolved.account.held = account.held
                   /\ resolved.account.state = "Active"
C3_Witness ==
    /\ account.state = "Active"
    /\ \E t \in Known : /\ account.transactions[t].state = "Resolved"
                        /\ account.transactions[t].amount # 0
    /\ \E t \in Known : /\ account.transactions[t].state = "New"
                        /\ account.transactions[t].amount # 0

\* C4: a Chargeback of a Disputed transaction with stored amount m succeeds,
\* reduces held by m, leaves available at its value after the dispute and locks
\* the account in the same call; a Chargeback that fails (unknown tx id, or
\* transaction not Disputed) leaves the account Active.
C4_ChargebackLocks ==
    account.state = "Active" =>
        \A t \in TxIDs :
            LET out == Call(t, Chargeback)
            IN IF t \in Known /\ account.transactions[t].state = "Disputed"
               THEN /\ out.result = Ok
                    /\ out.account.held = account.held - account.transactions[t].amount
                    /\ out.account.available = account.available
                    /\ out.account.state = "Locked"
                    /\ out.account.transactions[t].state = "Chargeback"
               ELSE /\ out.result # Ok
                    /\ out.account.state = "Active"
C4_Witness ==
    /\ account.state = "Active"
    /\ \E t \in Known : /\ account.transactions[t].state = "Disputed"
                        /\ account.transactions[t].amount > 0
    /\ \E t \in Known : account.transactions[t].state = "New"
    /\ Unknown # {}

\* C5: on an Active account Dispute, Resolve and Chargeback of a tx id that is
\* not in the transaction map fail with MissingTransaction, and Deposit and
\* Withdrawal of a tx id that is in the map fail with DuplicateTransaction; in
\* both cases balances, account state and transaction map are unchanged.
C5_KindMatchesExistence ==
    account.state = "Active" =>
        /\ \A t \in Unknown : \A a \in {Dispute, Resolve, Chargeback} :
               LET out == Call(t, a)
               IN /\ out.result.kind = "MissingTransaction"
                  /\ out.result.action = a
                  /\ out.account = account
        /\ \A t \in Known : \A a \in Amounts :
               LET dep == Call(t, Deposit(a))
                   wd == Call(t, Withdrawal(a))
               IN /\ dep.result.kind = "DuplicateTransaction"
                  /\ dep.account = account
                  /\ wd.result.kind = "DuplicateTransaction"
                  /\ wd.account = account
C5_Witness ==
    /\ account.state = "Active"
    /\ Known # {}
    /\ Unknown # {}
    /\ account.available > 0

\* C6: a transaction's state changes only along New -> Disputed (dispute),
\* Disputed -> Resolved (resolve) and Disputed -> Chargeback (chargeback), so
\* Resolved and Chargeback are terminal and a transaction is disputed at most
\* once; every other requested transition fails with
\* InvalidTransactionStateTransition(current state, requested state) and
\* leaves the transaction, and through Account.process the account, unchanged.
Transitions ==
    {<<"New", "Disputed">>, <<"Disputed", "Resolved">>, <<"Disputed", "Chargeback">>}
Requested(kind) ==
    CASE kind = "Dispute" -> "Disputed"
      [] kind = "Resolve" -> "Resolved"
      [] kind = "Chargeback" -> "Chargeback"
Transaction_request(tx, kind) ==
    CASE kind = "Dispute" -> Transaction_dispute(tx)
      [] kind = "Resolve" -> Transaction_resolve(tx)
      [] kind = "Chargeback" -> Transaction_chargeback(tx)
C6_RequestsFollowTable ==
    \A t \in Known : \A a \in {Dispute, Resolve, Chargeback} :
        LET tx == account.transactions[t]
            r == Transaction_request(tx, a.kind)
            out == Call(t, a)
        IN IF <<tx.state, Requested(a.kind)>> \in Transitions
           THEN /\ r.ok
                /\ r.transaction = Transaction(tx.amount, Requested(a.kind))
           ELSE /\ r = TxErr("InvalidTransactionStateTransition",
                             tx.state, Requested(a.kind))
                /\ account.state = "Active" =>
                       /\ out.result = ProcessorError(
                              "InvalidTransactionStateTransition", Item(t, a),
                              tx.state, Requested(a.kind))
                       /\ out.account = account
C6_StepsFollowTable ==
    \A t \in Known :
        /\ t \in DOMAIN account'.transactions
        /\ account'.transactions[t].amount = account.transactions[t].amount
        /\ \/ account'.transactions[t].state = account.transactions[t].state
           \/ <<account.transactions[t].state, account'.transactions[t].state>>
                  \in Transitions
C6_TransactionStateMachine ==
    /\ [](C6_RequestsFollowTable)
    /\ [][C6_StepsFollowTable]_vars
C6_Witness ==
    /\ \E t \in Known : account.transactions[t].state = "Resolved"
    /\ \E t \in Known : account.transactions[t].state = "Chargeback"
    /\ \E t \in Known : account.transactions[t].state = "New"

\* C8: Account.process is all-or-nothing: whenever it returns an error, of
\* whatever kind, the account it leaves (available, held, state, the tx ids of
\* the map and every stored transaction's state and amount) is the account it
\* was given.
C8_ErrorLeavesAccount ==
    \A item \in Items :
        LET out == Account_process(account, item)
        IN out.result # Ok => out.account = account
ActiveErrors ==
    {"DuplicateTransaction", "MissingTransaction",
     "InvalidTransactionStateTransition", "NegativeDeposit",
     "NegativeWithdrawal", "InsufficientFunds"}
C8_Witness ==
    /\ account.state = "Active"
    /\ account.held # 0
    /\ \A k \in ActiveErrors :
           \E item \in Items : Account_process(account, item).result.kind = k

\* C9: Transaction::deposit of an amount < 0 fails with NegativeDeposit and
\* Transaction::withdraw of an amount < 0 with NegativeWithdrawal, and given to
\* an Active account under a new tx id neither inserts a transaction nor
\* changes a balance. A Deposit of an amount >= 0 under a new tx id on an
\* Active account succeeds, adds the amount to available and inserts a New
\* transaction; a successful Withdrawal stores the negated amount.
C9_SignedAmounts ==
    /\ \A a \in Negative :
           /\ Transaction_deposit(a) = TxErr("NegativeDeposit", "-", "-")
           /\ Transaction_withdraw(a) = TxErr("NegativeWithdrawal", "-", "-")
    /\ account.state = "Active" =>
           \A t \in Unknown :
               /\ \A a \in Negative :
                      LET dep == Call(t, Deposit(a))
                          wd == Call(t, Withdrawal(a))
                      IN /\ dep.result.kind = "NegativeDeposit"
                         /\ dep.account = account
                         /\ wd.result.kind = "NegativeWithdrawal"
                         /\ wd.account = account
               /\ \A a \in NonNegative :
                      LET dep == Call(t, Deposit(a))
                          wd == Call(t, Withdrawal(a))
                      IN /\ dep.result = Ok
                         /\ dep.account =
                                [account EXCEPT
                                    !.available = @ + a,
                                    !.transactions =
                                        Insert(@, t, Transaction(a, "New"))]
                         /\ wd.result = Ok =>
                                wd.account =
                                    [account EXCEPT
                                        !.available = @ - a,
                                        !.transactions =
                                            Insert(@, t, Transaction(0 - a, "New"))]
C9_Witness ==
    /\ account.state = "Active"
    /\ Unknown # {}
    /\ \E t \in Known : account.transactions[t] = Transaction(MaxAmount, "New")
    /\ \E t \in Known : account.transactions[t] = Transaction(0 - MaxAmount, "New")

\* C7: the total an account reports is available + held after every event, in
\* every account a task holds and in every summary record a dump emits (the
\* records in the dump channel and those main has received).
SummaryRecords == {sink[i] : i \in 1..Len(sink)} \cup {output[i] : i \in 1..Len(output)}
C7_TotalIsAvailablePlusHeld ==
    /\ \A r \in SummaryRecords : r.total = r.available + r.held
    /\ \A s \in Tasks : \A c \in DOMAIN manager[s] :
           /\ total(manager[s][c]) = manager[s][c].available + manager[s][c].held
           /\ workerPc[s] = "dump" =>
                  Summary(c, manager[s][c]).total
                      = manager[s][c].available + manager[s][c].held
C7_Witness ==
    \E i \in 1..Len(output) :
        /\ output[i].held # 0
        /\ output[i].total # output[i].available

\* C10: for every client id c, every event submitted with client id c is
\* handled by the task with index c & (N - 1), which for a power of two N is
\* c mod N, and by no other; that task has handled or still queues the events
\* of c in exactly the order of their submission, and the account of c is the
\* result of applying the handled ones in that order. This holds in every
\* state of every interleaving of main and the tasks.
OfClient(seq, c) == SelectSeq(seq, LAMBDA item : item.client_id = c)
HandledItems(s) == [i \in 1..Len(handled[s]) |-> handled[s][i].item]
QueuedItems(s) ==
    LET msgs == SelectSeq(queue[s], LAMBDA msg : msg.kind = "Process")
    IN [i \in 1..Len(msgs) |-> msgs[i].item]
RECURSIVE Replay(_)
Replay(seq) ==
    IF seq = <<>>
    THEN AccountManager_new
    ELSE AccountManager_process(Replay(SubSeq(seq, 1, Len(seq) - 1)),
                                seq[Len(seq)]).manager
IsPowerOfTwo(n) == \E k \in 0..n : 2 ^ k = n
RouteIds == 0..(4 * MaxCount - 1)
C11_IndexIsRemainder ==
    /\ \A n \in 1..MaxCount :
           IsPowerOfTwo(n) =>
               \A c \in RouteIds :
                   /\ index(c, n - 1) = c % n
                   /\ index(c, n - 1) \in 0..(n - 1)
    /\ mainPc \notin {"start", "panicked"} =>
           /\ IsPowerOfTwo(count)
           /\ mask = count - 1
           /\ Tasks = 0..(count - 1)
           /\ \A c \in Clients : index(c, mask) = c % count
    /\ mainPc = "send" => index(pending.client_id, mask) \in Tasks
C11_RoutingIsStable ==
    /\ [](C11_IndexIsRemainder)
    /\ [][mainPc # "start" => mask' = mask /\ count' = count]_vars
    /\ [][mainPc = "send" /\ mainPc' = "read" =>
             LET owner == pending.client_id % count
             IN /\ queue'[owner] = Append(queue[owner], ProcessMsg(pending))
                /\ \A s \in Tasks \ {owner} : queue'[s] = queue[s]]_vars
C11_Witness ==
    /\ count = 2
    /\ \E c \in Clients, d \in Clients :
           /\ c # d
           /\ OfClient(HandledItems(0), c) # <<>>
           /\ OfClient(HandledItems(1), d) # <<>>
           /\ index(c, mask) = 0
           /\ index(d, mask) = 1

\* C12: the items submitted, processed in their order of submission by one
\* AccountManager, give the reference registry. In every interleaving, once
\* every submitted item has been handled, the tasks together hold exactly the
\* clients of the reference registry, each in its own task and with the same
\* account; and once the dump has been received to its end, the records are
\* exactly one (client, available, held, total, locked) per client of the
\* reference registry, with the values of the reference account.
Reference == Replay(submitted)
ReferenceRecord(c) ==
    [client_id |-> c, available |-> Reference[c].available,
     held |-> Reference[c].held,
     total |-> Reference[c].available + Reference[c].held,
     locked |-> Reference[c].state = "Locked"]
AllHandled ==
    /\ mainPc \notin {"start", "panicked", "send"}
    /\ \A s \in Tasks : QueuedItems(s) = <<>>
DumpReceived == mainPc \in {"stop", "join", "done"}
C12_ShardedEqualsSequential ==
    /\ AllHandled =>
           /\ UNION {DOMAIN manager[s] : s \in Tasks} = DOMAIN Reference
           /\ \A s \in Tasks : \A c \in DOMAIN manager[s] :
                  /\ s = c % count
                  /\ manager[s][c] = Reference[c]
    /\ DumpReceived =>
           /\ AllHandled
           /\ {output[i] : i \in 1..Len(output)}
                  = {ReferenceRecord(c) : c \in DOMAIN Reference}
           /\ Len(output) = Cardinality(DOMAIN Reference)
C12_Witness ==
    /\ mainPc = "done"
    /\ count = 2
    /\ Len(submitted) = MaxEvents
    /\ Len(output) = 2
    /\ output[1].client_id > output[2].client_id

\* C13: no item passed to submit is dropped. In every state each task has
\* handled, or still queues, exactly the items submitted for it, each once and
\* in their order. Under fair scheduling a send in progress completes, also
\* when it found the channel of the task full and had to wait for room, and
\* from some point on every item submitted has been dequeued and passed to
\* AccountManager::process by its task (an item once submitted stays
\* submitted, and once handled stays handled).
OfTask(seq, s) == SelectSeq(seq, LAMBDA item : item.client_id % count = s)
NthSubmitted(n) == Len(submitted) >= n
NthHandled(n) ==
    /\ Len(submitted) >= n
    /\ LET s == submitted[n].client_id % count
       IN Len(handled[s]) >= Len(OfTask(SubSeq(submitted, 1, n), s))
C13_ExactlyOnce ==
    mainPc \notin {"start", "panicked"} =>
        \A s \in Tasks :
            HandledItems(s) \o QueuedItems(s) = OfTask(submitted, s)
C13_SubmitNeverDrops ==
    /\ [](C13_ExactlyOnce)
    /\ (mainPc = "send") ~> (mainPc = "read")
    /\ <>[](\A n \in 1..MaxEvents : NthSubmitted(n) => NthHandled(n))
C13_Witness ==
    /\ mainPc = "send"
    /\ Len(queue[index(pending.client_id, mask)]) = ChannelCapacity
    /\ Head(queue[index(pending.client_id, mask)]).kind = "Process"

\* C14: in answer to the one Dump a task emits one record for every account
\* of its manager and no other, in ascending order of client id: the records
\* of a task, in the order they entered the dump channel, have strictly
\* ascending client ids, each is the summary of an account the task holds,
\* and once the task has finished its Dump they are all of its accounts. Over
\* all tasks, once main has received the dump to its end, every account of
\* every task has exactly one record and there is no record whose client no
\* task holds.
Emitted == output \o sink
EmittedBy(s) == SelectSeq(Emitted, LAMBDA r : r.client_id % count = s)
DumpFinished(s) ==
    /\ mainPc \in {"dump", "recv", "stop", "join", "done"}
    /\ mainPc = "dump" => s < taskIdx
    /\ \A i \in 1..Len(queue[s]) : queue[s][i].kind # "Dump"
    /\ workerPc[s] # "dump"
C14_OneRecordPerAccount ==
    mainPc \notin {"start", "panicked"} =>
        /\ \A s \in Tasks :
               LET mine == EmittedBy(s)
               IN /\ \A i \in 1..Len(mine) :
                         /\ mine[i].client_id \in DOMAIN manager[s]
                         /\ mine[i].available = manager[s][mine[i].client_id].available
                         /\ mine[i].held = manager[s][mine[i].client_id].held
                         /\ mine[i].locked
                                = (manager[s][mine[i].client_id].state = "Locked")
                  /\ \A i \in 1..Len(mine) : \A j \in 1..Len(mine) :
                         i < j => mine[i].client_id < mine[j].client_id
                  /\ workerPc[s] = "dump" =>
                         {mine[i].client_id : i \in 1..Len(mine)}
                             \cup {dumpLeft[s][i] : i \in 1..Len(dumpLeft[s])}
                             = DOMAIN manager[s]
                  /\ DumpFinished(s) =>
                         {mine[i].client_id : i \in 1..Len(mine)} = DOMAIN manager[s]
                  /\ ~DumpFinished(s) /\ workerPc[s] # "dump" => mine = <<>>
        /\ DumpReceived =>
               /\ sink = <<>>
               /\ \A s \in Tasks : DumpFinished(s)
               /\ \A s \in Tasks : \A c \in DOMAIN manager[s] :
                      Cardinality({i \in 1..Len(output) : output[i].client_id = c}) = 1
               /\ \A i \in 1..Len(output) :
                      \E s \in Tasks : output[i].client_id \in DOMAIN manager[s]
C14_Witness ==
    /\ mainPc = "done"
    /\ count = 1
    /\ Cardinality(DOMAIN manager[0]) = 2
    /\ Len(output) = 2
    /\ output[1].client_id < output[2].client_id

\* C15, as the specification states it: at the step at which dump returns,
\* every task has already emitted all of its records.
C15_DumpReturnsAfterEmission ==
    [][mainPc = "dump" /\ mainPc' = "recv" =>
          \A s \in Tasks : DumpFinished(s)']_vars

\* C15, amended: dump suspends its caller only until a Dump message is in the
\* channel of every task. When it has returned every task has its Dump queued,
\* is emitting, or has finished, and the dump channel has one live Sender for
\* every task that has not finished; main receives end-of-stream, and goes on
\* to stop, only when every task has finished emitting and every record has
\* been received.
DumpRequested(s) == \E i \in 1..Len(queue[s]) : queue[s][i].kind = "Dump"
C15_SinkClosesAfterEmission ==
    /\ mainPc = "recv" =>
           /\ \A s \in Tasks :
                  \/ DumpRequested(s)
                  \/ workerPc[s] = "dump"
                  \/ DumpFinished(s)
           /\ sinkSenders = Cardinality({s \in Tasks : ~DumpFinished(s)})
    /\ DumpReceived =>
           /\ \A s \in Tasks : DumpFinished(s) /\ dumpLeft[s] = <<>>
           /\ sinkSenders = 0
           /\ sink = <<>>
C15_Witness ==
    /\ mainPc = "recv"
    /\ output = <<>>
    /\ sink = <<>>
    /\ \E s \in Tasks :
           /\ DumpRequested(s)
           /\ DOMAIN manager[s] # {}

\* C16: shutdown is graceful. A task ends only by receiving Stop, and Stop is
\* the last message of its channel, so a task that has ended has received
\* every message enqueued before Stop: its channel is empty, it has handled
\* every item submitted for it and has finished its Dump. join passes a task
\* only when that task has ended, so when join has returned every task has
\* ended. Under fair scheduling, once stop is requested join returns.
Terminated(s) == workerPc[s] = "done"
C16_DrainedBeforeEnd ==
    mainPc \notin {"start", "panicked"} =>
        /\ \A s \in Tasks :
               /\ \A i \in 1..Len(queue[s]) :
                      queue[s][i].kind = "Stop" => i = Len(queue[s])
               /\ Terminated(s) =>
                      /\ queue[s] = <<>>
                      /\ HandledItems(s) = OfTask(submitted, s)
                      /\ DumpFinished(s)
                      /\ mainPc \in {"stop", "join", "done"}
               /\ mainPc = "join" /\ s < taskIdx => Terminated(s)
        /\ mainPc = "done" => \A s \in Tasks : Terminated(s)
C16_GracefulShutdown ==
    /\ [](C16_DrainedBeforeEnd)
    /\ [][\A s \in Tasks :
             ~Terminated(s) /\ Terminated(s)' => Head(queue[s]) = StopMsg]_vars
    /\ (mainPc = "stop") ~> (mainPc = "done")
C16_Witness ==
    /\ mainPc = "done"
    /\ count = 2
    /\ \A s \in Tasks : Terminated(s) /\ handled[s] # <<>>

\* C17: an error of one item is local and not fatal. At the step at which a
\* task handles an item of client c, the task stays in its receive loop with
\* that item taken off its channel, and the accounts of all other clients, in
\* the same task and in every other task, are what they were; when the item
\* fails no account changes at all, that of c included, and no task changes
\* its position.
Handles(s) == Len(handled'[s]) = Len(handled[s]) + 1
LastHandled(s) == handled'[s][Len(handled'[s])]
C17_ErrorIsLocal ==
    [][\A s \in Tasks :
          Handles(s) =>
              LET c == LastHandled(s).item.client_id
              IN /\ workerPc'[s] = "recv"
                 /\ queue'[s] = Tail(queue[s])
                 /\ \A t \in Tasks :
                        /\ DOMAIN manager'[t] \ {c} = DOMAIN manager[t] \ {c}
                        /\ \A d \in DOMAIN manager[t] \ {c} :
                               manager'[t][d] = manager[t][d]
                 /\ LastHandled(s).result # Ok =>
                        /\ manager' = manager
                        /\ workerPc' = workerPc]_vars
C17_Witness ==
    \E s \in Tasks :
        /\ Len(handled[s]) = 2
        /\ handled[s][1].result = Ok
        /\ handled[s][2].result # Ok
        /\ handled[s][2].item.client_id # handled[s][1].item.client_id
        /\ handled[s][1].item.client_id \in DOMAIN manager[s]
        /\ workerPc[s] = "recv"

\* C18, as the specification states it: once a task has handled an item of a
\* client, its manager holds an account of that client, also when the first
\* item failed; while no item of the client has succeeded that account is the
\* empty one.
Referenced(s, c) == \E i \in 1..Len(handled[s]) : handled[s][i].item.client_id = c
Succeeded(s, c) ==
    \E i \in 1..Len(handled[s]) :
        /\ handled[s][i].item.client_id = c
        /\ handled[s][i].result = Ok
C18_CreatedOnFirstReference ==
    mainPc \notin {"start", "panicked"} =>
        \A s \in Tasks : \A c \in Clients :
            Referenced(s, c) =>
                /\ c \in DOMAIN manager[s]
                /\ ~Succeeded(s, c) => manager[s][c] = Account_new

\* C18, amended: AccountManager::process keeps a new account only when the
\* first item of its client succeeds. A manager holds an account of a client
\* exactly when an item of that client has succeeded there, so after a failed
\* first item, and after any number of failed items, there is no account of
\* the client, and the dump emits no record for it; an account once kept is
\* never removed.
C18_CreatedOnFirstSuccess ==
    /\ mainPc \notin {"start", "panicked"} =>
           /\ \A s \in Tasks : \A c \in Clients :
                  (c \in DOMAIN manager[s]) = Succeeded(s, c)
           /\ \A i \in 1..Len(Emitted) :
                  Succeeded(Emitted[i].client_id % count, Emitted[i].client_id)
    /\ \A item \in Lines :
           LET first == AccountManager_process(AccountManager_new, item)
           IN /\ first.result # Ok => first.manager = AccountManager_new
              /\ first.result = Ok => DOMAIN first.manager = {item.client_id}
C18_Witness ==
    /\ mainPc = "done"
    /\ output # <<>>
    /\ \E s \in Tasks : \E c \in Clients :
           /\ Referenced(s, c)
           /\ ~Succeeded(s, c)
           /\ c \notin DOMAIN manager[s]
           /\ \A i \in 1..Len(output) : output[i].client_id # c

\* C19: spawn with a count that is not a power of two, 0 included, fails at
\* once: the assert on count_ones holds exactly for the powers of two, and
\* when it fails main has panicked with no task created, no line read and no
\* item submitted, and nothing happens afterwards; with a power of two main
\* does not panic.
C19_NothingStarted ==
    /\ \A n \in 0..(4 * MaxCount) : (count_ones(n) = 1) = IsPowerOfTwo(n)
    /\ mainPc # "start" => (mainPc = "panicked") = ~IsPowerOfTwo(count)
    /\ mainPc = "panicked" =>
           /\ Tasks = {}
           /\ lines = 0
           /\ pending = NoItem
           /\ submitted = <<>>
           /\ sink = <<>>
           /\ output = <<>>
C19_SpawnFailsFast ==
    /\ [](C19_NothingStarted)
    /\ [][mainPc = "start" /\ ~IsPowerOfTwo(count') => mainPc' = "panicked"]_vars
    /\ [][mainPc = "panicked" => UNCHANGED vars]_vars
C19_Witness ==
    /\ mainPc = "panicked"
    /\ count > MaxCount
    /\ count_ones(count) > 1
    /\ Tasks = {}

\* C20, as the specification states it: a dispute of a withdrawal lowers
\* available, so whenever available is at least 0 and below the withdrawn
\* amount, the Dispute of that New withdrawal (stored amount m < 0) succeeds
\* and takes available below 0.
Stored(t) == account.transactions[t]
C20_WithdrawalDisputeDrivesNegative ==
    account.state = "Active" =>
        \A t \in Known :
            /\ Stored(t).state = "New"
            /\ Stored(t).amount < 0
            /\ account.available >= 0
            /\ account.available + Stored(t).amount < 0
            => /\ Call(t, Dispute).result = Ok
               /\ Call(t, Dispute).account.available < 0

\* C20, amended: the Dispute of a New transaction with stored amount m on an
\* Active account succeeds whatever the balances are, there is no liquidity
\* check, and moves m from available to held. For a withdrawal, m < 0, it
\* raises available by the withdrawn amount and lowers held by it, so it
\* never takes available from 0 or more to below 0, and it takes held below
\* 0 when held was 0; for a deposit, m > 0, it lowers available by m, below 0
\* when available was less than m.
C20_DisputeIsUnchecked ==
    account.state = "Active" =>
        \A t \in Known :
            Stored(t).state = "New" =>
                LET m == Stored(t).amount
                    out == Call(t, Dispute)
                IN /\ out.result = Ok
                   /\ out.account.available = account.available - m
                   /\ out.account.held = account.held + m
                   /\ m < 0 =>
                          /\ out.account.available > account.available
                          /\ out.account.held < account.held
                          /\ account.available >= 0 => out.account.available > 0
                          /\ account.held = 0 => out.account.held < 0
                   /\ m > 0 /\ account.available < m => out.account.available < 0
C20_Witness ==
    /\ account.state = "Active"
    /\ account.available < 0
    /\ \E t \in Known :
           /\ Stored(t).state = "Disputed"
           /\ Stored(t).amount > 0
           /\ account.available + Stored(t).amount >= 0
    /\ \E u \in Known :
           /\ Stored(u).state = "New"
           /\ Stored(u).amount < 0
           /\ Call(u, Dispute).result = Ok
           /\ Call(u, Dispute).account.available >= 0
           /\ Call(u, Dispute).account.held = 0

C22_PrecisionChecked ==
    amtPc # "input" =>
        LET len == Len(amtArgs.fractional)
            integral == from_str_radix(amtArgs.integral)
            fractional == from_str_radix(amtArgs.fractional)
        IN IF len > 4
           THEN amtResult = AmountErr
           ELSE amtResult = AmountOk(integral * 10000 + fractional * 10 ^ (4 - len))

\* C23: for every scaled integer v the text written is the sign, the
\* integral part |v| div 10^4, a '.', and the fractional part |v| mod 10^4
\* padded with zeros to 4 digits, with one '-' before the integral part
\* exactly when v < 0, also when the integral part is 0.
Rendered(v) ==
    (IF v < 0 THEN <<"-">> ELSE <<>>)
        \o Decimal(abs(v) \div 10000) \o <<".">> \o fmt_padded(abs(v) % 10000, 4)
C23_SignBeforeIntegral ==
    amtPc = "shown" => amtText = Rendered(amtValue)

\* C24: the channel of a task never holds more messages than its capacity.
\* While main has a message for a task whose channel is full, an item in
\* send, a Dump in dump or a Stop in stop, main stays where it is with that
\* message in hand: the channel does not grow, nothing is recorded as
\* submitted and the item is not given up; only the task's own receiving
\* changes the channel.
Target ==
    IF mainPc = "send" THEN index(pending.client_id, mask) ELSE taskIdx
Sending == mainPc \in {"send", "dump", "stop"}
C24_WithinCapacity ==
    \A s \in Tasks : Len(queue[s]) <= ChannelCapacity
C24_BoundedChannels ==
    /\ [](C24_WithinCapacity)
    /\ [][Sending /\ Len(queue[Target]) >= ChannelCapacity =>
             /\ mainPc' = mainPc
             /\ taskIdx' = taskIdx
             /\ pending' = pending
             /\ submitted' = submitted
             /\ \A s \in Tasks : Len(queue'[s]) <= Len(queue[s])]_vars
C24_Witness ==
    /\ mainPc = "send"
    /\ lines = MaxEvents
    /\ Len(submitted) = MaxEvents - 1
    /\ \E s \in Tasks :
           /\ s = Target
           /\ Len(queue[s]) = ChannelCapacity
           /\ workerPc[s] = "recv"

\* C25: in every reachable state held is the sum of the stored signed amounts
\* of the account's transactions in state Disputed, available is the sum of
\* those in state New or Resolved, and so total is the sum of those of all
\* its transactions that are not charged back.
RECURSIVE SumOfAmounts(_)
SumOfAmounts(ids) ==
    IF ids = {}
    THEN 0
    ELSE LET t == CHOOSE id \in ids : TRUE
         IN Stored(t).amount + SumOfAmounts(ids \ {t})
InState(states) == {t \in Known : Stored(t).state \in states}
C25_Conservation ==
    /\ account.held = SumOfAmounts(InState({"Disputed"}))
    /\ account.available = SumOfAmounts(InState({"New", "Resolved"}))
    /\ account.available + account.held
           = SumOfAmounts(InState({"New", "Disputed", "Resolved"}))
    /\ \A t \in Known :
           Stored(t).state \in {"New", "Disputed", "Resolved", "Chargeback"}
C25_Witness ==
    /\ InState({"Disputed"}) # {}
    /\ InState({"Chargeback"}) # {}
    /\ InState({"New", "Resolved"}) # {}
    /\ account.held # 0
    /\ account.available # 0
    /\ \E t \in InState({"Chargeback"}) : Stored(t).amount # 0

\* C26: in every reachable state the account is Locked exactly when one of
\* its transactions is charged back, and then exactly one is: an Active
\* account has none and no account has two. A step locks the account exactly
\* when it moves a transaction to the charged-back state.
ChargedBack == InState({"Chargeback"})
C26_LockedIffChargedBack ==
    /\ account.state \in {"Active", "Locked"}
    /\ (account.state = "Locked") = (Cardinality(ChargedBack) = 1)
    /\ (account.state = "Active") = (ChargedBack = {})
    /\ Cardinality(ChargedBack) <= 1
    /\ \A item \in Items :
           LET out == Account_process(account, item).account
               charged == {t \in DOMAIN out.transactions :
                               out.transactions[t].state = "Chargeback"}
           IN (out.state = "Locked" /\ account.state = "Active")
                  = (charged # {} /\ ChargedBack = {})
C26_Witness ==
    /\ account.state = "Locked"
    /\ Cardinality(ChargedBack) = 1
    /\ InState({"Disputed"}) # {}
    /\ \E t \in InState({"Disputed"}) :
           Call(t, Chargeback).result.kind = "LockedAccount"

\* C27: the order of the checks in Account::process. (1) On a Locked account
\* the result is LockedAccount for every item, whatever its action, amount
\* or tx id. (2) On an Active account a Deposit or Withdrawal under a tx id
\* the account holds is DuplicateTransaction, also when its amount is
\* negative. (3) On an Active account a Withdrawal under a new tx id with an
\* amount < 0 is NegativeWithdrawal, whatever available is, and leaves the
\* account as it is, so it is never InsufficientFunds and never raises
\* available.
C27_ErrorPrecedence ==
    /\ account.state = "Locked" =>
           \A item \in Items :
               Account_process(account, item).result.kind = "LockedAccount"
    /\ account.state = "Active" =>
           /\ \A t \in Known : \A a \in Amounts :
                  /\ Call(t, Deposit(a)).result.kind = "DuplicateTransaction"
                  /\ Call(t, Withdrawal(a)).result.kind = "DuplicateTransaction"
                  /\ Call(t, Deposit(a)).account = account
                  /\ Call(t, Withdrawal(a)).account = account
           /\ \A t \in Unknown : \A a \in Negative :
                  LET wd == Call(t, Withdrawal(a))
                  IN /\ wd.result.kind = "NegativeWithdrawal"
                     /\ wd.account = account
C27_Witness ==
    /\ account.state = "Active"
    /\ account.available < 0
    /\ \E t \in Known : \E a \in Negative :
           Call(t, Withdrawal(a)).result.kind = "DuplicateTransaction"
    /\ \E t \in Unknown : \E a \in Negative :
           /\ account.available - a >= 0
           /\ Call(t, Withdrawal(a)).result.kind = "NegativeWithdrawal"

\* C28: the dump is a snapshot. In the channel of a task no Process message
\* stands behind the Dump message, so when the task takes the Dump, and from
\* then on, it has handled every item submitted for it; every record emitted
\* for a client c is the summary of the account that the items submitted for
\* c, all of them and in their order of submission, give when replayed alone;
\* and while a task is emitting, its accounts do not change, nor is anything
\* submitted once dump has been called.
DumpBegun == mainPc \in {"dump", "recv", "stop", "join", "done"}
Snapshot(c) == Replay(OfClient(submitted, c))
C28_SnapshotState ==
    mainPc \notin {"start", "panicked"} =>
        /\ \A s \in Tasks :
               /\ \A i \in 1..Len(queue[s]) : \A j \in 1..Len(queue[s]) :
                      queue[s][i].kind = "Dump" /\ i < j =>
                          queue[s][j].kind # "Process"
               /\ workerPc[s] = "dump" \/ DumpFinished(s) =>
                      HandledItems(s) = OfTask(submitted, s)
        /\ \A i \in 1..Len(Emitted) :
               LET c == Emitted[i].client_id
               IN /\ DumpBegun
                  /\ c \in DOMAIN Snapshot(c)
                  /\ Emitted[i] = Summary(c, Snapshot(c)[c])
Accounts == UNION {{<<s, c>> : c \in DOMAIN manager[s]} : s \in Tasks}
C29_ClosesAfterAll ==
    [][mainPc = "recv" /\ mainPc' = "stop" =>
          /\ sinkSenders = 0
          /\ sink = <<>>
          /\ \A s \in Tasks : workerPc[s] = "recv" /\ dumpLeft[s] = <<>>
          /\ Len(output) = Cardinality(Accounts)
          /\ \A a \in Accounts :
                 \E i \in 1..Len(output) : output[i].client_id = a[2]]_vars
C29_DriverTerminates ==
    /\ C29_ClosesAfterAll
    /\ (mainPc = "read") ~> (mainPc = "done")
C29_Witness ==
    /\ mainPc = "recv"
    /\ \E s \in Tasks :
           /\ Cardinality(DOMAIN manager[s]) > SinkCapacity
           /\ workerPc[s] = "dump"
           /\ dumpLeft[s] # <<>>
           /\ Len(sink) = SinkCapacity

====
